---------------------------- MODULE Spec2Model ----------------------------
(***************************************************************************)
(* A model of package parprog (pbnjay/parprog):                            *)
(*   - BoundedExec, the bounded worker pool                  (SpecExec)    *)
(*   - the progress sources spinner and fileWrapper, one     (SpecSource)  *)
(*     source with its method calls                                        *)
(*   - Viz, the registry of progress entries: Add, Complete, (SpecViz)     *)
(*     Remove and the redraw, each atomic under v.mu                       *)
(*   - the same four as goroutines that lock and unlock v.mu (SpecLock)    *)
(*   - Start, the run goroutine, the input goroutine, Stop   (SpecLife)    *)
(* Time is time.Now().Truncate(time.Second): a clock of whole seconds.     *)
(***************************************************************************)
EXTENDS Integers, Sequences, FiniteSets, Bags, TLC

\* ------------------------------------------------------------ bounds ----
MaxN == 2          \* largest concurrency n given to BoundedExec
MaxItems == 3      \* longest names slice given to BoundedExec

ItemNames == {"a", "b"}

VARIABLES
  \* BoundedExec (one call)
  n,            \* the parameter n
  names,        \* the parameter names
  pcMain,       \* where the calling goroutine is
  i,            \* the spawn loop's counter
  k,            \* how many of names the range loop has sent
  wg,           \* the WaitGroup's counter
  boundedChan,  \* the channel's buffer
  closed,       \* whether boundedChan is closed
  wpc,          \* each pool goroutine's position
  wname,        \* the name each pool goroutine holds
  called,       \* bag of names nameFunc was called with
  returned,     \* bag of names nameFunc returned for
  \* Viz (after Start)
  readers,      \* v.readers
  now,          \* time.Now().Truncate(time.Second), in seconds
  started,      \* v.started
  last,         \* the last call of Add, Complete or Remove and how it ended
  \* one progress source on its own
  src,          \* the spinner or fileWrapper
  hist,         \* the status strings returned for src so far, with their times
  srcOp,        \* the last method called on src
  \* the goroutines of a Viz: Start, run, the input watcher, Stop
  pcCaller,     \* where the goroutine that calls Start and Stop is
  pcRun,        \* where the run goroutine is
  pcWatch,      \* where the goroutine around termbox.PollEvent is
  got,          \* the values run has received from v.quit
  term,         \* the terminal: "off", "on" (termbox.Init), "closed" (termbox.Close)
  exit,         \* the code given to os.Exit, NoExit while the process runs
  ticks,        \* how many redraws the run goroutine has made
  \* v.mu and the goroutines that take it
  mu,           \* the goroutine that holds v.mu, NoOne when it is free
  tpc,          \* where each of these goroutines is in its call
  top           \* the method it is in

execVars == <<n, names, pcMain, i, k, wg, boundedChan, closed, wpc, wname,
              called, returned>>

vizVars == <<readers, started, last>>

srcVars == <<src, hist, srcOp>>

lifeVars == <<pcCaller, pcRun, pcWatch, got, term, exit, ticks>>

lockVars == <<mu, tpc, top>>

runVars == <<lifeVars, lockVars>>

vars == <<execVars, vizVars, srcVars, now, runVars>>

\* ------------------------------------------------------- helpers --------
RECURSIVE SeqsUpTo(_, _)
SeqsUpTo(S, len) ==
  IF len = 0 THEN {<<>>}
  ELSE LET shorter == SeqsUpTo(S, len - 1)
       IN shorter \cup {Append(s, x) : s \in {t \in shorter : Len(t) = len - 1}, x \in S}

RECURSIVE BagOfSeq(_)
BagOfSeq(s) ==
  IF s = <<>> THEN EmptyBag ELSE BagOfSeq(Tail(s)) (+) SetToBag({Head(s)})

\* the goroutines a pool can hold (one more than the largest n)
Slots == 1 .. (MaxN + 1)

Active == {w \in Slots : wpc[w] = "running"}

\* ============================================ progress sources ===========
\* status.go. A source is a record; a spinner leaves the file fields unused.
\*   kind     "spinner" | "file"
\*   w        spinner.w
\*   start    start, in whole seconds
\*   elapsed  elapsed, in whole seconds (0: not done)
\*   size     info.Size() of the file; fileWrapper.sz is size / 100.0
\*   pos      the file's read offset, what f.Seek(0, os.SEEK_CUR) returns
\*   open     whether the *os.File is usable: Stat and Seek fail on one that
\*            is closed (or nil)

MaxTime == 1       \* the clock runs from 0 to MaxTime seconds
MaxSize == 3       \* the largest file size
MaxHist == 6       \* status calls recorded for the single source

Sizes == 0 .. MaxSize

Wheel == <<"/", "-", "\\", "|">>

\* time.Duration.String() of a whole number of seconds below one minute
DurationString(d) == ToString(d) \o "s"

\* fmt's %6.2f of a value given in hundredths (0 <= h < 100000)
Fmt6_2(h) ==
  LET whole == h \div 100
      frac  == h % 100
      pad   == IF whole < 10 THEN "  " ELSE IF whole < 100 THEN " " ELSE ""
  IN pad \o ToString(whole) \o "." \o (IF frac < 10 THEN "0" ELSE "") \o ToString(frac)

\* %6.2f of float64(pos) / sz with sz = float64(size) / 100.0, rounded to the
\* nearest hundredth; 0/0 is NaN and p/0 is +Inf in float64.
Percent(pos, size) ==
  IF size = 0 THEN (IF pos = 0 THEN "   NaN" ELSE "  +Inf")
  ELSE Fmt6_2((2 * 10000 * pos + size) \div (2 * size))

\* fmt.Sprintf("%s %6.2f%%", elapsed.String(), 100.0)
DoneLine(elapsed) == DurationString(elapsed) \o " " \o Fmt6_2(10000) \o "%"

NoView ==
  [kind |-> "none", w |-> 0, start |-> 0, elapsed |-> 0, size |-> 0, pos |-> 0,
   open |-> FALSE]

newSpinner(t) ==
  [kind |-> "spinner", w |-> 0, start |-> t, elapsed |-> 0, size |-> 0, pos |-> 0,
   open |-> FALSE]

\* the *os.File values handed to wrapFile
Files ==
  {f \in [size : Sizes, pos : 0 .. MaxSize, open : {TRUE}] : f.pos <= f.size} \cup
  {[size |-> 0, pos |-> 0, open |-> FALSE]}

ErrStat == "stat: file already closed"

\* wrapFile: (view, err)
wrapFile(f, t) ==
  IF ~f.open THEN [view |-> NoView, err |-> ErrStat]
  ELSE [view |-> [kind |-> "file", w |-> 0, start |-> t, elapsed |-> 0,
                  size |-> f.size, pos |-> f.pos, open |-> TRUE],
        err |-> "<nil>"]

\* spinner.readStatus at time t: the string returned and the spinner afterwards
spinnerReadStatusMut(s, t) ==
  LET w2 == (s.w + 1) % Len(Wheel)
  IN [str |-> IF s.elapsed # 0 THEN DoneLine(s.elapsed)
              ELSE DurationString(t - s.start) \o "    " \o Wheel[w2 + 1] \o "   ",
      view |-> [s EXCEPT !.w = w2]]

spinnerReadStatus(s, t) ==
  IF s.elapsed # 0
  THEN [str |-> DoneLine(s.elapsed), view |-> s]
  ELSE LET w2 == (s.w + 1) % Len(Wheel)
       IN [str |-> DurationString(t - s.start) \o "    " \o Wheel[w2 + 1] \o "   ",
           view |-> [s EXCEPT !.w = w2]]

\* spinner.done at time t
spinnerDone(s, t) ==
  LET e == t - s.start
  IN [s EXCEPT !.elapsed = IF e = 0 THEN 1 ELSE e]

\* fileWrapper.done at time t
fileWrapperDone(w, t) == [w EXCEPT !.elapsed = t - w.start]

\* fileWrapper.readStatus at time t
fileWrapperReadStatus(w, t) ==
  IF w.elapsed # 0
  THEN [str |-> DoneLine(w.elapsed), view |-> w]
  ELSE IF ~w.open
  THEN [str |-> DoneLine(t - w.start), view |-> [w EXCEPT !.elapsed = t - w.start]]
  ELSE [str |-> DurationString(t - w.start) \o " " \o Percent(w.pos, w.size) \o "%",
        view |-> w]

\* readStatusInterface, dispatched on the dynamic type
readStatus(v, t) ==
  IF v.kind = "spinner" THEN spinnerReadStatus(v, t) ELSE fileWrapperReadStatus(v, t)

done(v, t) ==
  IF v.kind = "spinner" THEN spinnerDone(v, t) ELSE fileWrapperDone(v, t)

\* the clock advances by a second (shared by every specification)
Clock ==
  /\ now < MaxTime
  /\ now' = now + 1
  /\ UNCHANGED <<execVars, vizVars, srcVars, runVars>>

\* ------------------------------------------- one source on its own ------
SrcIdle ==
  /\ src = NoView
  /\ hist = <<>>
  /\ srcOp = "none"

\* src.readStatus()
SrcReadStatus ==
  /\ Len(hist) < MaxHist
  /\ LET r == readStatus(src, now)
     IN /\ src' = r.view
        /\ hist' = Append(hist, [t |-> now, str |-> r.str])
  /\ srcOp' = "readStatus"
  /\ UNCHANGED <<execVars, vizVars, now, runVars>>

\* src.done()
SrcDone ==
  /\ src' = done(src, now)
  /\ srcOp' = "done"
  /\ UNCHANGED <<execVars, vizVars, now, hist, runVars>>

\* the owner of the file reads on: the offset a later Seek reports grows
SrcFileRead ==
  /\ src.kind = "file"
  /\ src.open
  /\ src.pos < src.size
  /\ src' = [src EXCEPT !.pos = @ + 1]
  /\ UNCHANGED <<execVars, vizVars, now, hist, srcOp, runVars>>

\* the owner of the file closes it: a later Seek fails
SrcFileClose ==
  /\ src.kind = "file"
  /\ src.open
  /\ src' = [src EXCEPT !.open = FALSE]
  /\ UNCHANGED <<execVars, vizVars, now, hist, srcOp, runVars>>

\* ======================================================== Viz ============
\* A readInfo is [Name, View, Error]. View is a pointer in the code; here the
\* source it points to is held in the entry, since no two entries share one.
MaxReaders == 2    \* Add is not called on a registry of MaxReaders entries
MaxH == 3          \* termbox.Size() reports a height of 0 .. MaxH
VizSize == 1       \* the size of the files handed to Add

ReaderNames == {"a", "b"}

Nil == "<nil>"
ErrGzip == "cannot inspect gzip.Reader, use wrapped Reader"
TaskErrs == {Nil, "task failed"}

\* what a caller passes as rdr: a *gzip.Reader, an *os.File, anything else
Handles ==
  {[type |-> "gzip", f |-> [size |-> 0, pos |-> 0, open |-> FALSE]],
   [type |-> "other", f |-> [size |-> 0, pos |-> 0, open |-> FALSE]]} \cup
  {[type |-> "file", f |-> f] : f \in {g \in Files : g.size = VizSize \/ ~g.open}}

\* the index (from 1) of the first entry named name, 0 when there is none
FirstIdx(rs, name) ==
  IF \E j \in 1 .. Len(rs) : rs[j].Name = name
  THEN CHOOSE j \in 1 .. Len(rs) :
         rs[j].Name = name /\ \A l \in 1 .. (j - 1) : rs[l].Name # name
  ELSE 0

UniqueNames(rs) ==
  \A a, b \in 1 .. Len(rs) : rs[a].Name = rs[b].Name => a = b

\* last: the last call of Add, Complete or Remove.
\*   fault  it panicked
\*   uniq   the names were unique when it was called
\*   rep    it was a Remove, and so was the call before it, of the same name,
\*          on a registry of unique names
\*   was    (Complete) the Error the matched entry had before the call
NoCall(op) ==
  [op |-> op, name |-> "", fault |-> FALSE, uniq |-> TRUE, rep |-> FALSE, was |-> ""]

VizFresh ==
  /\ readers = <<>>
  /\ started = 0
  /\ last = NoCall("Start")

MaxTicks == 2      \* the redraws of the run goroutine that ticks counts

NoExit == -1       \* os.Exit has not been called
NoOne == ""        \* v.mu is unlocked

\* the goroutines that take v.mu: two callers of Add, Complete and Remove,
\* and the run goroutine
Callers == {"w1", "w2"}
Threads == Callers \cup {"run"}

\* no goroutine is inside a call that takes v.mu
LockIdle ==
  /\ mu = NoOne
  /\ tpc = [t \in Threads |-> "idle"]
  /\ top = [t \in Threads |-> ""]

\* a Viz before Start
LifeNew ==
  /\ pcCaller = "new"
  /\ pcRun = "none"
  /\ pcWatch = "none"
  /\ got = <<>>
  /\ term = "off"
  /\ exit = NoExit
  /\ ticks = 0

\* a Viz after Start and before Stop, no key pressed
LifeOn ==
  /\ pcCaller = "started"
  /\ pcRun = "select"
  /\ pcWatch = "poll"
  /\ got = <<>>
  /\ term = "on"
  /\ exit = NoExit
  /\ ticks = 0

\* redrawLocked with ymax := len(v.readers): one row short
redrawLockedMut(rs, h, t) ==
  LET len  == Len(rs)
      ymax == IF len > h THEN h ELSE len
      shown == {len - y + 1 : y \in 1 .. (ymax - 1)}
  IN [readers |-> [j \in 1 .. len |->
                     IF j \in shown
                     THEN [rs[j] EXCEPT !.View = readStatus(rs[j].View, t).view]
                     ELSE rs[j]],
      screen |-> [h |-> h,
                  header |-> IF h > 0 THEN "Running for " \o DurationString(t - started)
                             ELSE "",
                  rows |-> [y \in 1 .. (ymax - 1) |->
                             LET r == rs[len - y + 1]
                             IN [ri |-> len - y,
                                 status |-> readStatus(r.View, t).str,
                                 name |-> r.Name,
                                 es |-> IF r.Error = Nil THEN "" ELSE r.Error]]]]

\* redrawLocked on registry rs, the terminal h rows high, at time t: the
\* registry after the status calls, and what is put on the terminal (which the
\* program never reads back, so no variable keeps it). Row y shows rs[ri] for
\* ri = len - y (from 0), kept in the row as ri. A row is the three arguments of
\* Sprintf("%15s %s %s", ...); the clipping to the terminal's width and the
\* colours are left out.
redrawLocked(rs, h, t) ==
  LET len  == Len(rs)
      ymax == IF len + 1 > h THEN h ELSE len + 1
      shown == {len - y + 1 : y \in 1 .. (ymax - 1)}
  IN [readers |-> [j \in 1 .. len |->
                     IF j \in shown
                     THEN [rs[j] EXCEPT !.View = readStatus(rs[j].View, t).view]
                     ELSE rs[j]],
      screen |-> [h |-> h,
                  header |-> IF h > 0 THEN "Running for " \o DurationString(t - started)
                             ELSE "",
                  rows |-> [y \in 1 .. (ymax - 1) |->
                             LET r == rs[len - y + 1]
                             IN [ri |-> len - y,
                                 status |-> readStatus(r.View, t).str,
                                 name |-> r.Name,
                                 es |-> IF r.Error = Nil THEN "" ELSE r.Error]]]]

\* the type switch of Add: the view and the error of the new readInfo
newInfo(rdr, t) ==
  IF rdr.type = "gzip" THEN [view |-> newSpinner(t), err |-> ErrGzip]
  ELSE IF rdr.type = "file"
  THEN LET r == wrapFile(rdr.f, t)
       IN IF r.err # Nil THEN [view |-> newSpinner(t), err |-> r.err] ELSE r
  ELSE [view |-> newSpinner(t), err |-> Nil]

\* what the ticker case of run does while it holds v.mu
tickLocked(h) ==
  /\ readers' = redrawLocked(readers, h, now).readers
  /\ UNCHANGED last

\* the run goroutine's ticker case: lock, redrawLocked, unlock
RunTick(h) ==
  /\ tickLocked(h)
  /\ UNCHANGED <<execVars, srcVars, now, started, runVars>>

\* Add that gives up when the source could not be built
AddMut(name, rdr, h) ==
  /\ Len(readers) < MaxReaders
  /\ LET b    == newInfo(rdr, now)
         info == [Name |-> name, View |-> b.view, Error |-> b.err]
     IN readers' = IF b.err # Nil THEN readers
                   ELSE redrawLocked(Append(readers, info), h, now).readers
  /\ last' = NoCall("Add")
  /\ UNCHANGED <<execVars, srcVars, now, started, runVars>>

\* what Add does to the registry: the readInfo, built before v.mu is taken
\* and touching nothing shared, is appended and the terminal redrawn, both
\* while v.mu is held
addLocked(name, rdr, h) ==
  /\ Len(readers) < MaxReaders
  /\ LET b    == newInfo(rdr, now)
         info == [Name |-> name, View |-> b.view, Error |-> b.err]
     IN readers' = redrawLocked(Append(readers, info), h, now).readers
  /\ last' = NoCall("Add")

\* Viz.Add
Add(name, rdr, h) ==
  /\ addLocked(name, rdr, h)
  /\ UNCHANGED <<execVars, srcVars, now, started, runVars>>

\* Complete without the return in its loop: every match is completed
CompleteMutAll(name, err) ==
  /\ LET idx == FirstIdx(readers, name)
     IN IF idx = 0
        THEN /\ UNCHANGED readers
             /\ last' = NoCall("Complete")
        ELSE /\ readers' = [j \in 1 .. Len(readers) |->
                             IF readers[j].Name = name
                             THEN [readers[j] EXCEPT !.View = done(@, now), !.Error = err]
                             ELSE readers[j]]
             /\ last' = [NoCall("Complete") EXCEPT !.was = readers[idx].Error]
  /\ UNCHANGED <<execVars, srcVars, now, started, runVars>>

\* Complete that records err only when it is not nil
CompleteMutKeep(name, err) ==
  /\ LET idx == FirstIdx(readers, name)
     IN IF idx = 0
        THEN /\ UNCHANGED readers
             /\ last' = NoCall("Complete")
        ELSE /\ readers' = [readers EXCEPT ![idx].View = done(@, now),
                                           ![idx].Error = IF err = Nil THEN @ ELSE err]
             /\ last' = [NoCall("Complete") EXCEPT !.was = readers[idx].Error]
  /\ UNCHANGED <<execVars, srcVars, now, started, runVars>>

\* what Complete does while it holds v.mu
completeLocked(name, err) ==
  LET idx == FirstIdx(readers, name)
  IN IF idx = 0
     THEN /\ UNCHANGED readers
          /\ last' = NoCall("Complete")
     ELSE /\ readers' = [readers EXCEPT ![idx].View = done(@, now),
                                        ![idx].Error = err]
          /\ last' = [NoCall("Complete") EXCEPT !.was = readers[idx].Error]

\* Viz.Complete
Complete(name, err) ==
  /\ completeLocked(name, err)
  /\ UNCHANGED <<execVars, srcVars, now, started, runVars>>

\* What Remove does while it holds v.mu. With i the index (from 0) of the match: when i is the last
\* index the slice becomes v.readers[:i-1], which panics for i = 0 (the
\* deferred Unlock still runs, the registry is as it was, and a caller that
\* recovers goes on); otherwise the entries after i are appended to
\* v.readers[:i].
removeLocked(name) ==
  LET idx == FirstIdx(readers, name)
      i0  == idx - 1
      oob == idx # 0 /\ i0 = Len(readers) - 1 /\ i0 - 1 < 0
  IN /\ readers' = IF idx = 0 \/ oob THEN readers
                   ELSE IF i0 = Len(readers) - 1 THEN SubSeq(readers, 1, i0 - 1)
                   ELSE SubSeq(readers, 1, i0) \o SubSeq(readers, i0 + 2, Len(readers))
     /\ last' = [op |-> "Remove", name |-> name, fault |-> oob,
                 uniq |-> UniqueNames(readers),
                 rep |-> last.op = "Remove" /\ last.name = name /\ last.uniq,
                 was |-> ""]

\* Viz.Remove: lock, deferred unlock, removeLocked
Remove(name) ==
  /\ removeLocked(name)
  /\ UNCHANGED <<execVars, srcVars, now, started, runVars>>

\* the owner of entry j's file reads on
FileRead(j) ==
  /\ j <= Len(readers)
  /\ readers[j].View.kind = "file"
  /\ readers[j].View.open
  /\ readers[j].View.pos < readers[j].View.size
  /\ readers' = [readers EXCEPT ![j].View.pos = @ + 1]
  /\ UNCHANGED <<execVars, srcVars, now, started, last, runVars>>

\* the owner of entry j's file closes it
FileClose(j) ==
  /\ j <= Len(readers)
  /\ readers[j].View.kind = "file"
  /\ readers[j].View.open
  /\ readers' = [readers EXCEPT ![j].View.open = FALSE]
  /\ UNCHANGED <<execVars, srcVars, now, started, last, runVars>>

\* --------------------------------------------------- idle BoundedExec ---
ExecIdle ==
  /\ n = 0
  /\ names = <<>>
  /\ pcMain = "idle"
  /\ i = 0
  /\ k = 0
  /\ wg = 0
  /\ boundedChan = <<>>
  /\ closed = FALSE
  /\ wpc = [w \in Slots |-> "unborn"]
  /\ wname = [w \in Slots |-> ""]
  /\ called = EmptyBag
  /\ returned = EmptyBag

\* =================================================== BoundedExec =========
InitExec ==
  /\ n \in (-1) .. MaxN
  /\ names \in SeqsUpTo(ItemNames, MaxItems)
  /\ pcMain = "make"
  /\ i = 0
  /\ k = 0
  /\ wg = 0
  /\ boundedChan = <<>>
  /\ closed = FALSE
  /\ wpc = [w \in Slots |-> "unborn"]
  /\ wname = [w \in Slots |-> ""]
  /\ called = EmptyBag
  /\ returned = EmptyBag
  /\ VizFresh
  /\ SrcIdle
  /\ LifeNew
  /\ LockIdle
  /\ now = 0

\* wg := sync.WaitGroup{}; boundedChan := make(chan string, n)
\* make panics on a negative size.
MainMake ==
  /\ pcMain = "make"
  /\ pcMain' = IF n < 0 THEN "panic" ELSE "spawn"
  /\ UNCHANGED <<n, names, i, k, wg, boundedChan, closed, wpc, wname, called, returned, vizVars, srcVars, now, runVars>>

\* for i := 0; i < n; i++ { wg.Add(1); go func() {...}() }
MainSpawnMut ==
  /\ pcMain = "spawn"
  /\ i <= n
  /\ wg' = wg + 1
  /\ wpc' = [wpc EXCEPT ![i + 1] = "recv"]
  /\ i' = i + 1
  /\ UNCHANGED <<n, names, pcMain, k, boundedChan, closed, wname, called, returned, vizVars, srcVars, now, runVars>>

MainSpawn ==
  /\ pcMain = "spawn"
  /\ i < n
  /\ wg' = wg + 1
  /\ wpc' = [wpc EXCEPT ![i + 1] = "recv"]
  /\ i' = i + 1
  /\ UNCHANGED <<n, names, pcMain, k, boundedChan, closed, wname, called, returned, vizVars, srcVars, now, runVars>>

MainSpawnDone ==
  /\ pcMain = "spawn"
  /\ i >= n
  /\ pcMain' = "send"
  /\ UNCHANGED <<n, names, i, k, wg, boundedChan, closed, wpc, wname, called, returned, vizVars, srcVars, now, runVars>>

\* for _, fn := range names { boundedChan <- fn }
\* The send blocks while the buffer holds n values. With n = 0 the channel is
\* unbuffered and no goroutine receives from it, so the send never proceeds.
MainSendMut ==
  /\ pcMain = "send"
  /\ k < Len(names)
  /\ Len(boundedChan) < n
  /\ boundedChan' = Append(boundedChan, names[k + 1])
  /\ k' = IF k = 0 /\ Len(names) > 1 THEN 2 ELSE k + 1
  /\ UNCHANGED <<n, names, pcMain, i, wg, closed, wpc, wname, called, returned, vizVars, srcVars, now, runVars>>

MainSend ==
  /\ pcMain = "send"
  /\ k < Len(names)
  /\ Len(boundedChan) < n
  /\ boundedChan' = Append(boundedChan, names[k + 1])
  /\ k' = k + 1
  /\ UNCHANGED <<n, names, pcMain, i, wg, closed, wpc, wname, called, returned, vizVars, srcVars, now, runVars>>

\* the sender goes on to wait without closing the channel
MainCloseMut ==
  /\ pcMain = "send"
  /\ k = Len(names)
  /\ pcMain' = "wait"
  /\ UNCHANGED <<n, names, i, k, wg, boundedChan, closed, wpc, wname, called, returned, vizVars, srcVars, now, runVars>>

\* close(boundedChan)
MainClose ==
  /\ pcMain = "send"
  /\ k = Len(names)
  /\ closed' = TRUE
  /\ pcMain' = "wait"
  /\ UNCHANGED <<n, names, i, k, wg, boundedChan, wpc, wname, called, returned, vizVars, srcVars, now, runVars>>

\* wg.Wait(); return
MainWaitMut ==
  /\ pcMain = "wait"
  /\ boundedChan = <<>>
  /\ pcMain' = "done"
  /\ UNCHANGED <<n, names, i, k, wg, boundedChan, closed, wpc, wname, called, returned, vizVars, srcVars, now, runVars>>

MainWait ==
  /\ pcMain = "wait"
  /\ wg = 0
  /\ pcMain' = "done"
  /\ UNCHANGED <<n, names, i, k, wg, boundedChan, closed, wpc, wname, called, returned, vizVars, srcVars, now, runVars>>

\* name, ok := <-boundedChan   (a value is buffered)
WorkerRecv(w) ==
  /\ wpc[w] = "recv"
  /\ boundedChan # <<>>
  /\ wname' = [wname EXCEPT ![w] = Head(boundedChan)]
  /\ boundedChan' = Tail(boundedChan)
  /\ wpc' = [wpc EXCEPT ![w] = "call"]
  /\ UNCHANGED <<n, names, pcMain, i, k, wg, closed, called, returned, vizVars, srcVars, now, runVars>>

\* name, ok := <-boundedChan with ok = false (closed and drained);
\* return, and the deferred wg.Done()
WorkerExit(w) ==
  /\ wpc[w] = "recv"
  /\ boundedChan = <<>>
  /\ closed
  /\ wpc' = [wpc EXCEPT ![w] = "exited"]
  /\ wg' = wg - 1
  /\ UNCHANGED <<n, names, pcMain, i, k, boundedChan, closed, wname, called, returned, vizVars, srcVars, now, runVars>>

\* nameFunc(name) is entered
WorkerCall(w) ==
  /\ wpc[w] = "call"
  /\ called' = called (+) SetToBag({wname[w]})
  /\ wpc' = [wpc EXCEPT ![w] = "running"]
  /\ UNCHANGED <<n, names, pcMain, i, k, wg, boundedChan, closed, wname, returned, vizVars, srcVars, now, runVars>>

\* nameFunc(name) returns
WorkerReturn(w) ==
  /\ wpc[w] = "running"
  /\ returned' = returned (+) SetToBag({wname[w]})
  /\ wpc' = [wpc EXCEPT ![w] = "recv"]
  /\ UNCHANGED <<n, names, pcMain, i, k, wg, boundedChan, closed, wname, called, vizVars, srcVars, now, runVars>>

NextExec ==
  \/ MainMake
  \/ MainSpawn
  \/ MainSpawnDone
  \/ MainSend
  \/ MainClose
  \/ MainWait
  \/ \E w \in Slots : WorkerRecv(w)
  \/ \E w \in Slots : WorkerExit(w)
  \/ \E w \in Slots : WorkerCall(w)
  \/ \E w \in Slots : WorkerReturn(w)

SpecExec == InitExec /\ [][NextExec]_vars

\* The Go scheduler lets every goroutine that can take a step take one in the
\* end, and nameFunc is taken to return: each step of the sender and of each
\* pool goroutine is weakly fair.
FairExec ==
  /\ WF_vars(MainMake) /\ WF_vars(MainSpawn) /\ WF_vars(MainSpawnDone)
  /\ WF_vars(MainSend) /\ WF_vars(MainClose) /\ WF_vars(MainWait)
  /\ \A w \in Slots :
       /\ WF_vars(WorkerRecv(w)) /\ WF_vars(WorkerExit(w))
       /\ WF_vars(WorkerCall(w)) /\ WF_vars(WorkerReturn(w))

SpecExecFair == InitExec /\ [][NextExec]_vars /\ FairExec

\* ------------------------------------------------ the Viz in use --------
InitViz ==
  /\ ExecIdle
  /\ SrcIdle
  /\ VizFresh
  /\ LifeOn
  /\ LockIdle
  /\ now = 0

NextViz ==
  \/ Clock
  \/ \E h \in 0 .. MaxH : RunTick(h)
  \/ \E name \in ReaderNames, rdr \in Handles, h \in 0 .. MaxH : Add(name, rdr, h)
  \/ \E name \in ReaderNames, err \in TaskErrs : Complete(name, err)
  \/ \E name \in ReaderNames : Remove(name)
  \/ \E j \in 1 .. MaxReaders : FileRead(j)
  \/ \E j \in 1 .. MaxReaders : FileClose(j)

SpecViz == InitViz /\ [][NextViz]_vars

\* ------------------------------------------- one source in use ----------
InitSource ==
  /\ ExecIdle
  /\ VizFresh
  /\ LifeNew
  /\ LockIdle
  /\ now = 0
  /\ src \in {newSpinner(0)} \cup {wrapFile(f, 0).view : f \in {g \in Files : g.open}}
  /\ hist = <<>>
  /\ srcOp = "new"

NextSource ==
  \/ Clock
  \/ SrcReadStatus
  \/ SrcDone
  \/ SrcFileRead
  \/ SrcFileClose

SpecSource == InitSource /\ [][NextSource]_vars

\* ============================================== v.mu =====================
\* Add, Complete, Remove and the ticker case of run, each as the steps
\* Lock, the work under the lock, Unlock of the goroutine that runs it.
\* tpc: "idle", "lock" (at v.mu.Lock()), "in" (v.mu taken, work not done),
\* "unlock" (work done, at v.mu.Unlock(), deferred in Complete and Remove).

\* the handles the callers pass to Add here: a plain reader, an unread file
LockHandles ==
  {rdr \in Handles : rdr.type = "other" \/ (rdr.type = "file" /\ rdr.f.open /\ rdr.f.pos = 0)}

\* goroutine t enters Add, Complete or Remove
Call(t, op) ==
  /\ tpc[t] = "idle"
  /\ op = "Add" =>
       Len(readers) + Cardinality({u \in Callers : top[u] = "Add"}) < MaxReaders
  /\ tpc' = [tpc EXCEPT ![t] = "lock"]
  /\ top' = [top EXCEPT ![t] = op]
  /\ UNCHANGED <<execVars, srcVars, vizVars, now, lifeVars, mu>>

\* case <-ticker.C in run
Tick ==
  /\ pcRun = "select"
  /\ tpc["run"] = "idle"
  /\ tpc' = [tpc EXCEPT !["run"] = "lock"]
  /\ top' = [top EXCEPT !["run"] = "tick"]
  /\ UNCHANGED <<execVars, srcVars, vizVars, now, lifeVars, mu>>

\* a Lock that does not wait for v.mu to be free
LockMut(t) ==
  /\ tpc[t] = "lock"
  /\ mu' = t
  /\ tpc' = [tpc EXCEPT ![t] = "in"]
  /\ UNCHANGED <<execVars, srcVars, vizVars, now, lifeVars, top>>

\* v.mu.Lock()
Lock(t) ==
  /\ tpc[t] = "lock"
  /\ mu = NoOne
  /\ mu' = t
  /\ tpc' = [tpc EXCEPT ![t] = "in"]
  /\ UNCHANGED <<execVars, srcVars, vizVars, now, lifeVars, top>>

\* the statements between Lock and Unlock of the method t is in
Locked(t) ==
  /\ tpc[t] = "in"
  /\ \/ /\ top[t] = "Add"
        /\ \E name \in ReaderNames, rdr \in LockHandles, h \in 0 .. MaxH :
             addLocked(name, rdr, h)
     \/ /\ top[t] = "Complete"
        /\ \E name \in ReaderNames, err \in TaskErrs : completeLocked(name, err)
     \/ /\ top[t] = "Remove"
        /\ \E name \in ReaderNames : removeLocked(name)
     \/ /\ top[t] = "tick"
        /\ \E h \in 0 .. MaxH : tickLocked(h)
  /\ tpc' = [tpc EXCEPT ![t] = "unlock"]
  /\ UNCHANGED <<execVars, srcVars, started, now, lifeVars, mu, top>>

\* v.mu.Unlock(), and the method returns
Unlock(t) ==
  /\ tpc[t] = "unlock"
  /\ mu' = NoOne
  /\ tpc' = [tpc EXCEPT ![t] = "idle"]
  /\ top' = [top EXCEPT ![t] = ""]
  /\ UNCHANGED <<execVars, srcVars, vizVars, now, lifeVars>>

InitLock ==
  /\ ExecIdle
  /\ SrcIdle
  /\ VizFresh
  /\ LifeOn
  /\ LockIdle
  /\ now = 0

NextLock ==
  \/ \E t \in Callers, op \in {"Add", "Complete", "Remove"} : Call(t, op)
  \/ Tick
  \/ \E t \in Threads : Lock(t)
  \/ \E t \in Threads : Locked(t)
  \/ \E t \in Threads : Unlock(t)

SpecLock == InitLock /\ [][NextLock]_vars

\* ================================= Start, run, the input goroutine, Stop ==
\* v.quit is unbuffered: a send and the receive in run's select are one step.
\* termbox.Interrupt() hands EventInterrupt to a PollEvent in progress and
\* returns only when one has taken it.
\*   pcCaller  "new", "started", "stopping" (in Stop, at v.quit <- 0),
\*             "sleeping" (in Stop, at time.Sleep), "stopped"
\*   pcRun     "none", "select", "quit" (a value received, ticker stopped),
\*             "close" (at termbox.Close()), "closed" (after it), "returned"
\*   pcWatch   "none", "poll" (in termbox.PollEvent()), "send" (at
\*             v.quit <- 1), "returned"
\* After os.Exit no goroutine takes a step.

Keys == {"CtrlC", "other"}

\* Viz.Start
Start ==
  /\ exit = NoExit
  /\ pcCaller = "new"
  /\ term' = "on"
  /\ started' = now
  /\ pcWatch' = "poll"
  /\ pcRun' = "select"
  /\ pcCaller' = "started"
  /\ UNCHANGED <<execVars, srcVars, now, readers, last, got, exit, ticks, lockVars>>

\* termbox.PollEvent() returns a key event: on Ctrl-C the goroutine goes on
\* to send 1 on v.quit, on another key it polls again
WatchKey(key) ==
  /\ exit = NoExit
  /\ pcWatch = "poll"
  /\ pcWatch' = IF key = "CtrlC" THEN "send" ELSE "poll"
  /\ UNCHANGED <<execVars, srcVars, vizVars, now, pcCaller, pcRun, got, term, exit, ticks, lockVars>>

\* between Start and Stop the caller registers a reader
LifeAdd(name, rdr, h) ==
  /\ exit = NoExit
  /\ pcCaller = "started"
  /\ Add(name, rdr, h)

\* the caller enters Stop
StopCall ==
  /\ exit = NoExit
  /\ pcCaller = "started"
  /\ pcCaller' = "stopping"
  /\ UNCHANGED <<execVars, srcVars, vizVars, now, pcRun, pcWatch, got, term, exit, ticks, lockVars>>

\* case q := <-v.quit with Stop's v.quit <- 0; ticker.Stop()
RunRecvStop ==
  /\ exit = NoExit
  /\ pcRun = "select"
  /\ pcCaller = "stopping"
  /\ got' = Append(got, 0)
  /\ pcRun' = "quit"
  /\ pcCaller' = "sleeping"
  /\ UNCHANGED <<execVars, srcVars, vizVars, now, pcWatch, term, exit, ticks, lockVars>>

\* case q := <-v.quit with the input goroutine's v.quit <- 1, which then
\* returns; ticker.Stop()
RunRecvKey ==
  /\ exit = NoExit
  /\ pcRun = "select"
  /\ pcWatch = "send"
  /\ got' = Append(got, 1)
  /\ pcRun' = "quit"
  /\ pcWatch' = "returned"
  /\ UNCHANGED <<execVars, srcVars, vizVars, now, pcCaller, term, exit, ticks, lockVars>>

\* case <-ticker.C: lock, redrawLocked, unlock
LifeTick(h) ==
  /\ exit = NoExit
  /\ pcRun = "select"
  /\ ticks < MaxTicks
  /\ tickLocked(h)
  /\ ticks' = ticks + 1
  /\ UNCHANGED <<execVars, srcVars, now, started, pcCaller, pcRun, pcWatch, got, term, exit, lockVars>>

\* if q == 0 { termbox.Interrupt() }: PollEvent returns EventInterrupt and
\* the input goroutine returns
RunInterrupt ==
  /\ exit = NoExit
  /\ pcRun = "quit"
  /\ got[Len(got)] = 0
  /\ pcWatch = "poll"
  /\ pcWatch' = "returned"
  /\ pcRun' = "close"
  /\ UNCHANGED <<execVars, srcVars, vizVars, now, pcCaller, got, term, exit, ticks, lockVars>>

\* run that leaves the terminal as it is when q != 0
RunCloseMut ==
  /\ exit = NoExit
  /\ \/ pcRun = "close"
     \/ pcRun = "quit" /\ got[Len(got)] # 0
  /\ term' = IF got[Len(got)] # 0 THEN term ELSE "closed"
  /\ pcRun' = "closed"
  /\ UNCHANGED <<execVars, srcVars, vizVars, now, pcCaller, pcWatch, got, exit, ticks, lockVars>>

\* termbox.Close(), reached after Interrupt, or at once when q != 0
RunClose ==
  /\ exit = NoExit
  /\ \/ pcRun = "close"
     \/ pcRun = "quit" /\ got[Len(got)] # 0
  /\ term' = "closed"
  /\ pcRun' = "closed"
  /\ UNCHANGED <<execVars, srcVars, vizVars, now, pcCaller, pcWatch, got, exit, ticks, lockVars>>

\* if q != 0 { os.Exit(q) }
RunExit ==
  /\ exit = NoExit
  /\ pcRun = "closed"
  /\ got[Len(got)] # 0
  /\ exit' = got[Len(got)]
  /\ UNCHANGED <<execVars, srcVars, vizVars, now, pcCaller, pcRun, pcWatch, got, term, ticks, lockVars>>

\* return (q == 0)
RunReturn ==
  /\ exit = NoExit
  /\ pcRun = "closed"
  /\ got[Len(got)] = 0
  /\ pcRun' = "returned"
  /\ UNCHANGED <<execVars, srcVars, vizVars, now, pcCaller, pcWatch, got, term, exit, ticks, lockVars>>

\* time.Sleep(v.interval) is over and Stop returns
StopReturn ==
  /\ exit = NoExit
  /\ pcCaller = "sleeping"
  /\ pcCaller' = "stopped"
  /\ UNCHANGED <<execVars, srcVars, vizVars, now, pcRun, pcWatch, got, term, exit, ticks, lockVars>>

InitLife ==
  /\ ExecIdle
  /\ SrcIdle
  /\ VizFresh
  /\ LifeNew
  /\ LockIdle
  /\ now = 0

\* a step of one of the goroutines
LifeStep ==
  \/ Start
  \/ \E key \in Keys : WatchKey(key)
  \/ \E name \in ReaderNames, rdr \in LockHandles, h \in 0 .. MaxH : LifeAdd(name, rdr, h)
  \/ StopCall
  \/ RunRecvStop
  \/ RunRecvKey
  \/ \E h \in 0 .. MaxH : LifeTick(h)
  \/ RunInterrupt
  \/ RunClose
  \/ RunExit
  \/ RunReturn
  \/ StopReturn

NextLife ==
  \/ Clock
  \/ LifeStep

SpecLife == InitLife /\ [][NextLife]_vars

\* ---------------------------------------------------------------- C1 ----
\* C1: for n >= 1, nameFunc is never called more often with a name than the
\* name occurs in names, and when BoundedExec has returned it has been called,
\* and has returned, exactly once per element of names (duplicates counted).
C1_ExactlyOncePerItem ==
  n >= 1 =>
    /\ called \sqsubseteq BagOfSeq(names)
    /\ returned \sqsubseteq called
    /\ pcMain = "done" => (called = BagOfSeq(names) /\ returned = BagOfSeq(names))

\* BoundedExec(2, [a b a], f) has returned
C1_Witness ==
  /\ pcMain = "done"
  /\ n = 2
  /\ names = <<"a", "b", "a">>
  /\ CopiesIn("a", returned) = 2

\* ---------------------------------------------------------------- C2 ----
\* C2: for n >= 1, at most n invocations of nameFunc are running in any state.
C2_AtMostNActive ==
  n >= 1 => Cardinality(Active) <= n

\* both goroutines of a pool of 2 run nameFunc while the sender has names left
C2_Witness ==
  /\ n = 2
  /\ Cardinality(Active) = 2
  /\ pcMain = "send"
  /\ k < Len(names)

\* ---------------------------------------------------------------- C3 ----
\* C3: when BoundedExec has returned, no item is queued, no invocation is
\* pending or running, and each of the n pool goroutines has exited.
C3_ReturnsAfterAll ==
  pcMain = "done" =>
    /\ boundedChan = <<>>
    /\ \A w \in Slots : wpc[w] \in {"unborn", "exited"}
    /\ Cardinality({w \in Slots : wpc[w] = "exited"}) = n
    /\ returned = called

\* BoundedExec(2, names, f) has returned for MaxItems names
C3_Witness ==
  /\ pcMain = "done"
  /\ n = 2
  /\ Len(names) = MaxItems
  /\ Cardinality({w \in Slots : wpc[w] = "exited"}) = 2

\* ---------------------------------------------------------------- C4 ----
\* a terminal line: some elapsed time and 100.00%
IsTerminal(str) == \E d \in 0 .. (MaxTime + 1) : str = DoneLine(d)

\* C4: when Complete(name, err) has returned for an entry in the registry, a
\* status query of that entry returns a terminal line, whatever the kind of
\* the source, the time since Add and the read position.
C4_TerminalAfterComplete ==
  [][\A name \in ReaderNames, err \in TaskErrs :
       (Complete(name, err) /\ FirstIdx(readers, name) # 0) =>
         IsTerminal(readStatus(readers'[FirstIdx(readers, name)].View, now').str)]_vars

\* ---------------------------------------------------------------- C5 ----
\* s without its j-th element
RemoveAt(s, j) == [x \in 1 .. (Len(s) - 1) |-> IF x < j THEN s[x] ELSE s[x + 1]]

\* C5: Remove(name) on a registry that holds name leaves the entry sequence
\* with exactly the first entry of that name taken out, the others as they
\* were and in the same order. (Stated of the calls that return; that none
\* panics is another claim.)
C5_RemoveExactlyOne ==
  [][\A name \in ReaderNames :
       (Remove(name) /\ FirstIdx(readers, name) # 0 /\ ~last'.fault) =>
         readers' = RemoveAt(readers, FirstIdx(readers, name))]_vars

\* ---------------------------------------------------------------- C6 ----
\* C6: with unique names, a Remove(name) that follows a Remove(name) raises
\* no error and leaves the registry as it is.
C6_RemoveIdempotent ==
  [][\A name \in ReaderNames :
       (Remove(name) /\ last.op = "Remove" /\ last.name = name /\ last.uniq) =>
         (readers' = readers /\ ~last'.fault)]_vars

\* ---------------------------------------------------------------- C7 ----
\* C7: Complete(name, err) raises no error, keeps the length and the order of
\* the entry sequence, leaves every entry but the first of that name as it is
\* (name, source, error), and leaves the registry as it is when no entry has
\* that name.
C7_CompleteFrame ==
  [][\A name \in ReaderNames, err \in TaskErrs :
       Complete(name, err) =>
         /\ ~last'.fault
         /\ Len(readers') = Len(readers)
         /\ \A j \in 1 .. Len(readers) :
              /\ readers'[j].Name = readers[j].Name
              /\ j # FirstIdx(readers, name) => readers'[j] = readers[j]
         /\ FirstIdx(readers, name) = 0 => readers' = readers]_vars

\* Complete has acted on the first of two entries of one name: the first is
\* done and carries the task's error, the second is as Add left it.
C7_Witness ==
  /\ last.op = "Complete"
  /\ Len(readers) = 2
  /\ readers[1].Name = readers[2].Name
  /\ readers[1].Error = "task failed"
  /\ readers[1].View.elapsed # 0
  /\ readers[2].Error = Nil
  /\ readers[2].View.elapsed = 0

\* ---------------------------------------------------------------- C8 ----
\* C8: Complete(name, err) leaves the first entry of that name with Error = err,
\* whatever error Add attached; with err = nil the entry has no error.
C8_CompleteSetsError ==
  [][\A name \in ReaderNames, err \in TaskErrs :
       (Complete(name, err) /\ FirstIdx(readers, name) # 0) =>
         readers'[FirstIdx(readers, name)].Error = err]_vars

\* Complete(name, nil) has replaced the error Add attached to a gzip.Reader
C8_Witness ==
  /\ last.op = "Complete"
  /\ last.was = ErrGzip
  /\ \E j \in 1 .. Len(readers) : readers[j].Error = Nil /\ readers[j].View.elapsed # 0

\* ---------------------------------------------------------------- C9 ----
\* rdr is a handle no source can be built for
Unbuildable(rdr) == rdr.type = "gzip" \/ (rdr.type = "file" /\ ~rdr.f.open)

\* what Add appends: one entry named name at the end, a spinner carrying the
\* construction error when the source could not be built
AppendsOne(name, rdr) ==
  /\ Len(readers') = Len(readers) + 1
  /\ readers'[Len(readers')].Name = name
  /\ Unbuildable(rdr) =>
       /\ readers'[Len(readers')].View.kind = "spinner"
       /\ readers'[Len(readers')].Error = (IF rdr.type = "gzip" THEN ErrGzip ELSE ErrStat)
  /\ ~Unbuildable(rdr) =>
       /\ readers'[Len(readers')].View.kind = (IF rdr.type = "file" THEN "file" ELSE "spinner")
       /\ readers'[Len(readers')].Error = Nil

\* C9 as stated: Add appends one entry, and the entries already present are
\* unchanged.
C9_AddLeavesOthersUnchanged ==
  [][\A name \in ReaderNames, rdr \in Handles, h \in 0 .. MaxH :
       Add(name, rdr, h) =>
         /\ AppendsOne(name, rdr)
         /\ SubSeq(readers', 1, Len(readers)) = readers]_vars

\* C9 amended: Add appends one entry; the entries already present keep their
\* place, name and error, and their source is as it was or as one status
\* query at the time of the call leaves it.
C9_AddAppendsOne ==
  [][\A name \in ReaderNames, rdr \in Handles, h \in 0 .. MaxH :
       Add(name, rdr, h) =>
         /\ AppendsOne(name, rdr)
         /\ \A j \in 1 .. Len(readers) :
              /\ readers'[j].Name = readers[j].Name
              /\ readers'[j].Error = readers[j].Error
              /\ readers'[j].View \in {readers[j].View,
                                       readStatus(readers[j].View, now).view}]_vars

\* Add has appended a spinner with the Stat error behind an entry whose
\* spinner the redraws have advanced twice
C9_Witness ==
  /\ last.op = "Add"
  /\ Len(readers) = 2
  /\ readers[2].Error = ErrStat
  /\ readers[2].View.kind = "spinner"
  /\ readers[1].View.kind = "spinner"
  /\ readers[1].View.w = 2

\* --------------------------------------------------------------- C10 ----
WheelChars == {Wheel[c] : c \in 1 .. Len(Wheel)}

\* the wheel symbol in a status string of src, "" in a terminal line
SymOf(e) ==
  LET fits == {c \in WheelChars :
                 e.str = DurationString(e.t - src.start) \o "    " \o c \o "   "}
  IN IF fits = {} THEN "" ELSE CHOOSE c \in fits : TRUE

Live == {a \in 1 .. Len(hist) : SymOf(hist[a]) # ""}

\* C10: the status calls of a spinner that is not done show the same symbol
\* exactly when a multiple of 4 calls apart (4 in a row differ, the 5th is
\* the 1st again), and the cycle index is the number of such calls modulo 4:
\* each of them advances it by one, a call on a done spinner leaves it.
C10_SpinnerCycle ==
  src.kind = "spinner" =>
    /\ \A a, b \in Live : (SymOf(hist[a]) = SymOf(hist[b])) <=> ((b - a) % 4 = 0)
    /\ src.w = Cardinality(Live) % 4
    /\ \A a \in Live : \A b \in 1 .. a : b \in Live

\* five calls on the spinner before done, one after it
C10_Witness ==
  /\ src.kind = "spinner"
  /\ Len(hist) = 6
  /\ Cardinality(Live) = 5
  /\ src.elapsed # 0
  /\ srcOp = "readStatus"

\* --------------------------------------------------------------- C12 ----
\* C12: BoundedExec called with n <= 0 and a non-empty names neither panics
\* nor comes to a halt before it has returned.
C12_NonPositiveHandled ==
  (n <= 0 /\ names # <<>>) =>
    /\ pcMain # "panic"
    /\ pcMain = "done" \/ ENABLED NextExec

\* --------------------------------------------------------------- C14 ----
\* C14: a status call on a file source that is not done, over a file of size
\* S >= 0 read up to offset p, returns the running time and, as %6.2f, the
\* percentage p / (S / 100); at p = S that is 100.00, also for S = 0.
C14_PercentOfSize ==
  [][(SrcReadStatus /\ src.kind = "file" /\ src.elapsed = 0 /\ src.open) =>
       LET line == hist'[Len(hist')].str
           run  == DurationString(now - src.start)
       IN /\ src.pos = src.size => line = run \o " 100.00%"
          /\ src.size > 0 =>
               line = run \o " " \o
                      Fmt6_2((2 * 10000 * src.pos + src.size) \div (2 * src.size)) \o "%"]_vars

\* --------------------------------------------------------------- C15 ----
\* C15: after done() on a spinner or on a file source, elapsed is not zero:
\* it is now - start, or one second when that is zero, and the status call
\* that follows returns the terminal line.
C15_DoneClamped ==
  [][(SrcDone /\ src.kind \in {"spinner", "file"}) =>
       /\ src'.elapsed = (IF now - src.start = 0 THEN 1 ELSE now - src.start)
       /\ readStatus(src', now').str = DoneLine(src'.elapsed)]_vars

\* --------------------------------------------------------------- C16 ----
\* C16: a status call on a file source that is not done and whose Seek fails
\* returns the 100% line and leaves the source done, so that the status call
\* after it, at whatever time, returns that same line; also when no whole
\* second has passed since the source was made.
C16_SeekFailureFreezes ==
  [][(SrcReadStatus /\ src.kind = "file" /\ src.elapsed = 0 /\ ~src.open) =>
       LET line == hist'[Len(hist')].str
       IN /\ line = DoneLine(now - src.start)
          /\ src'.elapsed # 0
          /\ \A t \in now .. MaxTime : readStatus(src', t).str = line]_vars

\* --------------------------------------------------------------- C19 ----
\* C19: no call of Remove panics with a slice bound out of range, wherever
\* the match is; Remove of the only entry leaves the registry empty.
C19_RemoveNeverPanics ==
  [][\A name \in ReaderNames :
       Remove(name) =>
         /\ ~last'.fault
         /\ (Len(readers) = 1 /\ FirstIdx(readers, name) = 1) => readers' = <<>>]_vars

\* --------------------------------------------------------------- C18 ----
\* C18: for n >= 1, with fair scheduling and every nameFunc returning,
\* BoundedExec returns in the end: every name has been sent, the channel is
\* closed and drained, and each of the n pool goroutines has exited.
C18_Terminates ==
  (n >= 1) ~>
    /\ pcMain = "done"
    /\ k = Len(names)
    /\ closed
    /\ boundedChan = <<>>
    /\ \A w \in 1 .. n : wpc[w] = "exited"

\* BoundedExec(2, [], f) and BoundedExec(2, [a], f) have returned: fewer
\* names than goroutines
C18_Witness ==
  /\ pcMain = "done"
  /\ n = 2
  /\ Len(names) < n
  /\ wpc[1] = "exited"
  /\ wpc[2] = "exited"
  /\ Cardinality(DOMAIN BagOfSeq(names)) = Len(names)

\* --------------------------------------------------------------- C17 ----
\* C17: on a registry of n entries and a terminal h >= 0 rows high, a redraw
\* puts out min(n, max(h - 1, 0)) entry rows; row y shows the y-th newest
\* entry, read at an index inside the registry, and asks that entry for its
\* status; the n - min(n, max(h - 1, 0)) oldest entries are neither shown nor
\* asked.
C17_RedrawRows ==
  \A h \in 0 .. MaxH :
    LET len == Len(readers)
        hm  == IF h - 1 > 0 THEN h - 1 ELSE 0
        cnt == IF len < hm THEN len ELSE hm
        r   == redrawLocked(readers, h, now)
    IN /\ Len(r.screen.rows) = cnt
       /\ \A y \in 1 .. cnt :
            /\ r.screen.rows[y].ri = len - y
            /\ r.screen.rows[y].ri \in 0 .. (len - 1)
            /\ r.screen.rows[y].name = readers[len - y + 1].Name
            /\ r.screen.rows[y].status = readStatus(readers[len - y + 1].View, now).str
       /\ Len(r.readers) = len
       /\ \A j \in 1 .. len :
            r.readers[j] = IF j > len - cnt
                           THEN [readers[j] EXCEPT !.View = readStatus(@, now).view]
                           ELSE readers[j]

\* two spinners and redraws on a terminal two rows high: the newer one has
\* been shown twice, the older one never
C17_Witness ==
  /\ Len(readers) = 2
  /\ readers[1].View.kind = "spinner"
  /\ readers[1].View.elapsed = 0
  /\ readers[1].View.w = 0
  /\ readers[2].View.kind = "spinner"
  /\ readers[2].View.elapsed = 0
  /\ readers[2].View.w = 2

\* --------------------------------------------------------------- C13 ----
\* the goroutines between their Lock and their Unlock
InSection == {t \in Threads : tpc[t] \in {"in", "unlock"}}

\* C13: at most one goroutine is between Lock and Unlock, and it holds v.mu;
\* every step that reads or writes v.readers or an entry's Error, asks a
\* source for its status or flushes the terminal (the work of Add, Complete,
\* Remove and of the redraw) is taken by the goroutine that holds v.mu.
C13_MutualExclusion ==
  /\ [](/\ Cardinality(InSection) <= 1
        /\ \A t \in InSection : mu = t)
  /\ [][\A t \in Threads : Locked(t) => (mu = t /\ InSection = {t})]_vars

\* the run goroutine redraws under v.mu while one caller waits for v.mu in
\* Complete and the other in Remove
C13_Witness ==
  /\ mu = "run"
  /\ tpc["run"] = "unlock"
  /\ tpc["w1"] = "lock"
  /\ top["w1"] = "Complete"
  /\ tpc["w2"] = "lock"
  /\ top["w2"] = "Remove"
  /\ Len(readers) = 2
  /\ readers[2].View.w = 2

C20_BothTerminate ==
  (pcCaller \in {"stopping", "sleeping", "stopped"} /\ ~ENABLED LifeStep) =>
    \/ exit # NoExit
    \/ pcRun = "returned" /\ pcWatch = "returned"

=============================================================================
